---- MODULE Spec2Model ----
(***************************************************************************)
(* Model of the ocr-tool backend: the upload handler of index.ts, the OCR  *)
(* worker singleton of ocr.ts, parseQuestion of parser.ts, tagQuestion of  *)
(* awsTagger.ts and generateSummary of analyzer.ts.                        *)
(*                                                                         *)
(* A JavaScript string is modelled as the sequence of its characters       *)
(* (one-character TLA+ strings); names of services, domains and keywords   *)
(* stay TLA+ strings and are converted with Chars when they are matched.   *)
(***************************************************************************)
EXTENDS Integers, Sequences, FiniteSets, TLC

\* ------------------------------------------------------------------------
\* JavaScript strings
\* ------------------------------------------------------------------------

\* A string literal as the sequence of its characters.
Chars(s) == [i \in 1..Len(s) |-> SubSeq(s, i, i)]

LowerLetters == Chars("abcdefghijklmnopqrstuvwxyz")
UpperLetters == Chars("ABCDEFGHIJKLMNOPQRSTUVWXYZ")

UpperOf == [c \in {LowerLetters[i] : i \in 1..26} |->
              UpperLetters[CHOOSE i \in 1..26 : LowerLetters[i] = c]]

\* String.prototype.toUpperCase on one character / on a string (ASCII).
UpperChar(c) == IF c \in DOMAIN UpperOf THEN UpperOf[c] ELSE c
toUpperCase(s) == [i \in 1..Len(s) |-> UpperChar(s[i])]

\* String.prototype.includes
includes(s, sub) ==
    \E i \in 0..(Len(s) - Len(sub)) : \A j \in 1..Len(sub) : s[i + j] = sub[j]

\* The regular expression class \s and String.prototype.trim's white space.
IsSpace(c) == c \in {" ", "\t", "\n", "\r", "\f"}

\* String.prototype.trim
trim(s) ==
    IF \A i \in 1..Len(s) : IsSpace(s[i]) THEN <<>>
    ELSE SubSeq(s,
                CHOOSE lo \in 1..Len(s) :
                    ~IsSpace(s[lo]) /\ \A k \in 1..(lo - 1) : IsSpace(s[k]),
                CHOOSE hi \in 1..Len(s) :
                    ~IsSpace(s[hi]) /\ \A k \in (hi + 1)..Len(s) : IsSpace(s[k]))

\* A literal of a regular expression with the i flag matches s at position i.
MatchCI(s, i, lit) ==
    /\ i >= 1
    /\ i + Len(lit) - 1 <= Len(s)
    /\ \A j \in 1..Len(lit) : UpperChar(s[i + j - 1]) = UpperChar(lit[j])

\* The least position >= from that satisfies P, or Len(s) + 1.
FirstFrom(s, from, P(_)) ==
    LET hits == {k \in from..Len(s) : P(k)}
    IN  IF hits = {} THEN Len(s) + 1
        ELSE CHOOSE k \in hits : \A h \in hits : k <= h

\* A greedy [:\s]* starting at position from: the position after it.
SkipColonSpace(s, from) ==
    FirstFrom(s, from, LAMBDA k : ~(s[k] = ":" \/ IsSpace(s[k])))

IsLetterAD(c) == UpperChar(c) \in {"A", "B", "C", "D"}

\* ------------------------------------------------------------------------
\* parser.ts
\* ------------------------------------------------------------------------

\* text.replace(/\r\n/g, "\n").replace(/\r/g, "\n")
\* Every carriage return that a line feed follows is dropped (the matches of
\* /\r\n/g cannot overlap), the other characters keep their order.
replaceCRLF(s) ==
    LET keep == {i \in 1..Len(s) : ~(s[i] = "\r" /\ i < Len(s) /\ s[i + 1] = "\n")}
        nth(j) == CHOOSE i \in keep : Cardinality({k \in keep : k <= i}) = j
    IN  [j \in 1..Cardinality(keep) |-> s[nth(j)]]

replaceCR(s) == [i \in 1..Len(s) |-> IF s[i] = "\r" THEN "\n" ELSE s[i]]

normalize(text) == replaceCR(replaceCRLF(text))

\* /(?:Question[:\s]*|Q[:\s]*)(.*?)(?=(?:A\)|Options:|Your Answer:|Correct Answer:|$))/is
\* The lazy group always finds its lookahead (at the latest at the end of
\* the string), so the match starts at the leftmost q/Q, takes the first
\* alternative when "question" is there, and the greedy class never backs up.
QuestionLookahead(s, j) ==
    \/ MatchCI(s, j, Chars("A)"))
    \/ MatchCI(s, j, Chars("Options:"))
    \/ MatchCI(s, j, Chars("Your Answer:"))
    \/ MatchCI(s, j, Chars("Correct Answer:"))

\* The capture group from position p: up to the first lookahead, trimmed.
QuestionCapture(s, p) ==
    trim(SubSeq(s, p, FirstFrom(s, p, LAMBDA k : QuestionLookahead(s, k)) - 1))

\* The match that starts at the q/Q of position q, if there is one.
QuestionAt(s, q) ==
    IF q > Len(s) THEN <<>>
    ELSE QuestionCapture(s, SkipColonSpace(s, IF MatchCI(s, q, Chars("Question"))
                                             THEN q + 8 ELSE q + 1))

questionOf(s) == QuestionAt(s, FirstFrom(s, 1, LAMBDA k : UpperChar(s[k]) = "Q"))

\* One attempt of /([A-D])[:\)\.]?\s*([^\n]+)/gi at position i.  The
\* separator is optional and greedy, \s* is greedy and gives characters back
\* until [^\n]+ can start on a character that is not a line feed.
NoOption == [ok |-> FALSE, from |-> 0, to |-> 0]

\* [^\n]+ from position k, where it can start: up to the next line feed.
OptionLine(s, k) ==
    [ok |-> TRUE, from |-> k, to |-> FirstFrom(s, k, LAMBDA x : s[x] = "\n") - 1]

\* \s* from position w, whose greedy end is e.
OptionSpace(s, w, e) ==
    LET starts == {k \in w..e : k <= Len(s) /\ s[k] # "\n"}
    IN  IF starts = {} THEN NoOption
        ELSE OptionLine(s, CHOOSE x \in starts : \A y \in starts : x >= y)

OptionTry(s, i, sepLen) ==
    OptionSpace(s, i + 1 + sepLen,
                FirstFrom(s, i + 1 + sepLen, LAMBDA k : ~IsSpace(s[k])))

OptionMatchAt(s, i) ==
    IF ~IsLetterAD(s[i]) THEN NoOption
    ELSE IF /\ i + 1 <= Len(s)
            /\ s[i + 1] \in {":", ")", "."}
            /\ OptionTry(s, i, 1).ok
         THEN OptionTry(s, i, 1)
         ELSE OptionTry(s, i, 0)

\* while ((match = optionsRegex.exec(normalized)) !== null) result.options.push(...)
RECURSIVE optionsFrom(_, _)

\* The push for the match m at position i, and the next exec from its end.
OptionPush(s, i, m) ==
    <<(<<s[i], ":", " ">> \o trim(SubSeq(s, m.from, m.to)))>>
      \o optionsFrom(s, m.to + 1)

\* The exec whose leftmost match is at position i, if there is one.
OptionExec(s, i) ==
    IF i > Len(s) THEN <<>> ELSE OptionPush(s, i, OptionMatchAt(s, i))

optionsFrom(s, lastIndex) ==
    OptionExec(s, FirstFrom(s, lastIndex, LAMBDA k : OptionMatchAt(s, k).ok))

\* /Your\s+Answer[:\s]*([A-D])/i and /Correct\s+Answer[:\s]*([A-D])/i
\* The position of the capture group when "Answer" starts at position a.
AnswerLetter(s, a) == SkipColonSpace(s, a + 6)

\* \s+ from position w ends before position a, and the rest matches there.
AnswerAfter(s, w, a) ==
    /\ a > w
    /\ MatchCI(s, a, Chars("Answer"))
    /\ AnswerLetter(s, a) <= Len(s)
    /\ IsLetterAD(s[AnswerLetter(s, a)])

LabelAnswerAt(s, i, label) ==
    /\ MatchCI(s, i, label)
    /\ AnswerAfter(s, i + Len(label),
                   FirstFrom(s, i + Len(label), LAMBDA k : ~IsSpace(s[k])))

\* match[1].toUpperCase() of the match that starts at position i, if any.
AnswerAt(s, label, i) ==
    IF i > Len(s) THEN <<>>
    ELSE <<UpperChar(s[AnswerLetter(s, FirstFrom(s, i + Len(label),
                                                 LAMBDA k : ~IsSpace(s[k])))])>>

answerOf(s, label) ==
    AnswerAt(s, label, FirstFrom(s, 1, LAMBDA k : LabelAnswerAt(s, k, label)))

\* /Explanation[:\s]*(.*?)$/is
ExplanationAt(s, i) ==
    IF i > Len(s) THEN <<>>
    ELSE trim(SubSeq(s, SkipColonSpace(s, i + 11), Len(s)))

explanationOf(s) ==
    ExplanationAt(s, FirstFrom(s, 1, LAMBDA k : MatchCI(s, k, Chars("Explanation"))))

\* The result object, filled from the normalized text.
ParsedQuestion(text, normalized) ==
    [question      |-> questionOf(normalized),
     options       |-> optionsFrom(normalized, 1),
     yourAnswer    |-> answerOf(normalized, Chars("Your")),
     correctAnswer |-> answerOf(normalized, Chars("Correct")),
     explanation   |-> explanationOf(normalized),
     rawText       |-> text]

parseQuestion(text) == ParsedQuestion(text, normalize(text))

\* ------------------------------------------------------------------------
\* awsTagger.ts
\* ------------------------------------------------------------------------

AWS_SERVICES ==
    << "EC2", "Lambda", "Elastic Beanstalk", "ECS", "EKS", "Fargate", "Lightsail",
       "S3", "EBS", "EFS", "FSx", "Storage Gateway", "Glacier",
       "RDS", "DynamoDB", "ElastiCache", "Aurora", "DocumentDB", "Neptune",
       "Redshift", "MemoryDB",
       "VPC", "CloudFront", "Route 53", "API Gateway", "Direct Connect", "ELB",
       "ALB", "NLB", "Global Accelerator",
       "IAM", "Cognito", "Secrets Manager", "KMS", "Systems Manager",
       "Parameter Store", "WAF", "Shield", "GuardDuty", "Inspector",
       "SQS", "SNS", "EventBridge", "Step Functions", "SWF", "Amazon MQ",
       "Kinesis", "AppSync",
       "CodeCommit", "CodeBuild", "CodeDeploy", "CodePipeline", "CodeArtifact",
       "CodeGuru", "X-Ray", "CloudFormation",
       "CloudWatch", "CloudTrail", "Config", "Systems Manager",
       "ECR", "App Runner",
       "SAM", "Amplify" >>

\* Object.entries(DOMAINS): the domains in insertion order.
DOMAINS ==
    << [domain   |-> "Development with AWS Services",
        services |-> << "Lambda", "API Gateway", "DynamoDB", "S3", "SQS", "SNS",
                        "EventBridge", "Step Functions" >>],
       [domain   |-> "Security",
        services |-> << "IAM", "Cognito", "KMS", "Secrets Manager",
                        "Parameter Store", "WAF", "X-Ray" >>],
       [domain   |-> "Deployment",
        services |-> << "CodeDeploy", "CodePipeline", "CodeBuild", "CodeCommit",
                        "Elastic Beanstalk", "CloudFormation", "SAM" >>],
       [domain   |-> "Troubleshooting and Optimization",
        services |-> << "CloudWatch", "X-Ray", "CloudTrail", "ElastiCache",
                        "DynamoDB", "Lambda" >>] >>

keywords ==
    << "serverless", "microservices", "container", "scaling", "high availability",
       "fault tolerant", "cost optimization", "performance", "security",
       "encryption", "caching", "monitoring", "logging", "deployment", "CI/CD",
       "blue-green", "canary", "rollback", "throttling", "rate limiting", "CORS",
       "authentication", "authorization", "least privilege", "IAM role", "policy",
       "VPC", "subnet", "security group", "NACL", "queue", "topic",
       "event-driven", "asynchronous", "synchronous", "idempotent", "stateless",
       "stateful", "cold start" >>

Range(seq) == {seq[i] : i \in 1..Len(seq)}

\* The test of the services loop: the uppercased text contains the
\* uppercased name, or that name after "AWS ".
MentionedUpper(upperText, serviceUpper) ==
    \/ includes(upperText, serviceUpper)
    \/ includes(upperText, Chars("AWS ") \o serviceUpper)

ServiceMentioned(upperText, service) ==
    MentionedUpper(upperText, toUpperCase(Chars(service)))

\* services.some(s => tags.services.some(ts => ts.toUpperCase() === s.toUpperCase()))
hasService(d, services) ==
    \E s \in Range(d.services) : \E ts \in Range(services) :
        toUpperCase(Chars(ts)) = toUpperCase(Chars(s))

DomainNames(ds) == [i \in 1..Len(ds) |-> ds[i].domain]

\* The tags once the services loop has filled tags.services.
TagsWith(upperText, services) ==
    [services |-> services,
     domains  |-> DomainNames(SelectSeq(DOMAINS, LAMBDA d : hasService(d, services))),
     keywords |-> SelectSeq(keywords,
                    LAMBDA keyword : includes(upperText, toUpperCase(Chars(keyword))))]

TagsOfUpper(upperText) ==
    TagsWith(upperText,
             SelectSeq(AWS_SERVICES, LAMBDA service : ServiceMentioned(upperText, service)))

tagQuestion(text) == TagsOfUpper(toUpperCase(text))

\* ------------------------------------------------------------------------
\* analyzer.ts
\* ------------------------------------------------------------------------

\* A JavaScript number that is a quotient of integers is kept as the exact
\* fraction num/den in lowest terms (den > 0); rounding of doubles is not
\* modelled.
RECURSIVE GCD(_, _)
GCD(a, b) == IF b = 0 THEN a ELSE GCD(b, a % b)

Rat(n, d) == LET g == GCD(n, d) IN [num |-> n \div g, den |-> d \div g]
RatOfInt(n) == [num |-> n, den |-> 1]
RatLess(a, b) == a.num * b.den < b.num * a.den
RatLeq(a, b) == a.num * b.den <= b.num * a.den

\* The quotient without the factor 100.
PercentageUnscaled(correct, total) == Rat(correct, total)

\* (correct / total) * 100
Percentage(correct, total) == Rat(correct * 100, total)

\* Number.prototype.toFixed(1), as the number of tenths.
toFixed1(a) == (a.num * 20 + a.den) \div (2 * a.den)

\* lists[lo], ..., lists[hi], one after the other.
RECURSIVE Flat(_, _, _)
Flat(lists, lo, hi) ==
    IF lo > hi THEN <<>>
    ELSE IF lo = hi THEN lists[lo]
    ELSE Flat(lists, lo, (lo + hi) \div 2) \o Flat(lists, (lo + hi) \div 2 + 1, hi)

CountWhere(seq, P(_)) == Cardinality({i \in 1..Len(seq) : P(seq[i])})

\* Array.prototype.sort with a comparator is stable: an element comes
\* after the elements that sort before it and after the earlier elements
\* that compare equal to it.
Rank(seq, i, Greater(_, _)) ==
    Cardinality({j \in 1..Len(seq) :
                   Greater(seq[i], seq[j]) \/ (j < i /\ ~Greater(seq[j], seq[i]))})

Sorted(seq, Greater(_, _)) ==
    [n \in 1..Len(seq) |-> seq[CHOOSE i \in 1..Len(seq) : Rank(seq, i, Greater) = n - 1]]

SortBy(seq, Greater(_, _)) ==
    SubSeq(Sorted(SubSeq(seq, 1, Len(seq)), Greater), 1, Len(seq))

\* The observations of a breakdown, in forEach order: one per element of
\* the tag list of each analysis.
ObservationsOf(a, tagList) ==
    [i \in 1..Len(tagList) |-> [key |-> tagList[i], isCorrect |-> a.isCorrect]]

Observations(analyses, TagList(_)) ==
    Flat([n \in 1..Len(analyses) |-> ObservationsOf(analyses[n], TagList(analyses[n]))],
         1, Len(analyses))

\* An object and a Map keep their keys in insertion order: the keys at
\* the positions where they are seen for the first time.
FirstSeen(ks) ==
    SelectSeq([i \in 1..Len(ks) |-> [at |-> i, key |-> ks[i]]],
              LAMBDA p : \A j \in 1..(p.at - 1) : ks[j] # p.key)

\* The entry of a key once the breakdown loops are over: it is created on
\* the first observation of its key, and every observation of the key
\* counts in total and in one of correct and incorrect.
Observe(obs, key) ==
    [key       |-> key,
     total     |-> CountWhere(obs, LAMBDA o : o.key = key),
     correct   |-> CountWhere(obs, LAMBDA o : o.key = key /\ o.isCorrect),
     incorrect |-> CountWhere(obs, LAMBDA o : o.key = key /\ ~o.isCorrect),
     accuracy  |-> RatOfInt(0)]

Counted(obs, first) == [n \in 1..Len(first) |-> Observe(obs, first[n].key)]

ObservedKeys(obs) == [i \in 1..Len(obs) |-> obs[i].key]

CountObservations(obs) == Counted(obs, FirstSeen(ObservedKeys(obs)))

\* breakdown.accuracy = (breakdown.correct / breakdown.total) * 100
EntryAccuracy(e) == Percentage(e.correct, e.total)

WithAccuracy(counted) ==
    [i \in 1..Len(counted) |-> [counted[i] EXCEPT !.accuracy = EntryAccuracy(counted[i])]]

\* A breakdown object: its entries in key insertion order.
Breakdown(analyses, TagList(_)) ==
    WithAccuracy(CountObservations(Observations(analyses, TagList)))

Area(e) == [service |-> e.key, accuracy |-> e.accuracy, questionsReviewed |-> e.total]

IsWeak(e) == e.total >= 2 /\ RatLess(e.accuracy, RatOfInt(70))
IsStrong(e) == e.total >= 2 /\ ~RatLess(e.accuracy, RatOfInt(70))
                 /\ RatLeq(RatOfInt(85), e.accuracy)

AreasOf(breakdown, Pick(_)) ==
    LET picked == SelectSeq(breakdown, Pick)
    IN  [i \in 1..Len(picked) |-> Area(picked[i])]

\* keywordMap: a Map keeps its keys in insertion order.
\* keywordMap.set(keyword, (keywordMap.get(keyword) || 0) + 1)
CountKeyword(kws, first) ==
    [n \in 1..Len(first) |->
       [keyword |-> first[n].key, count |-> CountWhere(kws, LAMBDA k : k = first[n].key)]]

KeywordCounts(kws) == CountKeyword(kws, FirstSeen(kws))

KeywordsOf(analyses) == [n \in 1..Len(analyses) |-> analyses[n].tags.keywords]

AllKeywords(analyses) == Flat(KeywordsOf(analyses), 1, Len(analyses))

TopKeywordCount == 15

SecurityServices == {"IAM", "KMS", "Cognito", "Secrets Manager"}

\* k.toLowerCase().includes("serverless") || k.toLowerCase().includes("lambda")
MentionsServerless(upper) ==
    includes(upper, Chars("SERVERLESS")) \/ includes(upper, Chars("LAMBDA"))

IsServerlessKeyword(k) == MentionsServerless(toUpperCase(Chars(k)))

\* The messages are named by a tag; the two messages with an interpolated
\* part carry it.
\* The banding on the overall accuracy, above 85 only.
OverallMessageAbove(accuracy) ==
    IF RatLess(accuracy, RatOfInt(60)) THEN <<[msg |-> "fundamentals"]>>
    ELSE IF RatLess(accuracy, RatOfInt(75)) THEN <<[msg |-> "on-track"]>>
    ELSE IF RatLess(RatOfInt(85), accuracy) THEN <<[msg |-> "exam-ready"]>>
    ELSE <<>>

\* if (summary.accuracy < 60) ... else if (summary.accuracy < 75) ...
\* else if (summary.accuracy >= 85) ...
OverallMessage(accuracy) ==
    IF RatLess(accuracy, RatOfInt(60)) THEN <<[msg |-> "fundamentals"]>>
    ELSE IF RatLess(accuracy, RatOfInt(75)) THEN <<[msg |-> "on-track"]>>
    ELSE IF RatLeq(RatOfInt(85), accuracy) THEN <<[msg |-> "exam-ready"]>>
    ELSE <<>>

\* The analyses tagged with a security service, correct or not.
SecurityQuestions(analyses) ==
    CountWhere(analyses, LAMBDA a : \E s \in Range(a.tags.services) : s \in SecurityServices)

\* analyses.filter(a => !a.isCorrect && a.tags.services.some(s => [...].includes(s))).length
SecurityMistakes(analyses) ==
    CountWhere(analyses, LAMBDA a :
        ~a.isCorrect /\ \E s \in Range(a.tags.services) : s \in SecurityServices)

generateRecommendations(summary, analyses) ==
    LET topWeak == SubSeq(summary.weakAreas, 1,
                          IF Len(summary.weakAreas) < 3 THEN Len(summary.weakAreas) ELSE 3)
        weak == IF Len(summary.weakAreas) > 0
                THEN <<[msg |-> "priority-review",
                        services |-> [i \in 1..Len(topWeak) |-> topWeak[i].service]]>>
                ELSE <<>>
        lowDomains == SelectSeq(summary.domainBreakdown,
                                LAMBDA d : RatLess(d.accuracy, RatOfInt(65)))
        domainMsgs == [i \in 1..Len(lowDomains) |->
                         [msg |-> "deep-dive", domain |-> lowDomains[i].key,
                          tenths |-> toFixed1(lowDomains[i].accuracy)]]
        serverlessMistakes ==
            CountWhere(analyses, LAMBDA a :
                ~a.isCorrect /\ \E k \in Range(a.tags.keywords) : IsServerlessKeyword(k))
    IN  OverallMessage(summary.accuracy) \o weak \o domainMsgs
          \o (IF SecurityMistakes(analyses) >= 3 THEN <<[msg |-> "security-pattern"]>> ELSE <<>>)
          \o (IF serverlessMistakes >= 3 THEN <<[msg |-> "serverless"]>> ELSE <<>>)
          \o (IF summary.totalQuestions < 20 THEN <<[msg |-> "more-questions"]>> ELSE <<>>)

\* summary.weakAreas.sort((a, b) => a.accuracy - b.accuracy)
SortWeak(areas) == SortBy(areas, LAMBDA a, b : RatLess(b.accuracy, a.accuracy))

\* The strong areas in the order of the weak ones.
SortStrongAscending(areas) == SortWeak(areas)

\* summary.strongAreas.sort((a, b) => b.accuracy - a.accuracy)
SortStrong(areas) == SortBy(areas, LAMBDA a, b : RatLess(a.accuracy, b.accuracy))

\* The sorted keywords without the slice.
KeepAllKeywords(sortedKeywords) == sortedKeywords

\* sortedKeywords.slice(0, 15)
TopKeywords(sortedKeywords) ==
    SubSeq(sortedKeywords, 1,
           IF Len(sortedKeywords) < TopKeywordCount
           THEN Len(sortedKeywords) ELSE TopKeywordCount)

\* The summary object before its recommendations are assigned.
SummaryObject(analyses, totalQuestions, correctCount, serviceBreakdown) ==
    [totalQuestions   |-> totalQuestions,
     correctCount     |-> correctCount,
     incorrectCount   |-> CountWhere(analyses, LAMBDA a : ~a.isCorrect),
     accuracy         |-> IF totalQuestions > 0
                          THEN Percentage(correctCount, totalQuestions)
                          ELSE RatOfInt(0),
     serviceBreakdown |-> serviceBreakdown,
     domainBreakdown  |-> Breakdown(analyses, LAMBDA a : a.tags.domains),
     weakAreas        |-> SortWeak(AreasOf(serviceBreakdown, IsWeak)),
     strongAreas      |-> SortStrong(AreasOf(serviceBreakdown, IsStrong)),
     topKeywords      |-> TopKeywords(SortBy(KeywordCounts(AllKeywords(analyses)),
                                             LAMBDA a, b : a.count < b.count))]

\* summary.recommendations = generateRecommendations(summary, analyses)
WithRecommendations(summary, analyses) ==
    [totalQuestions   |-> summary.totalQuestions,
     correctCount     |-> summary.correctCount,
     incorrectCount   |-> summary.incorrectCount,
     accuracy         |-> summary.accuracy,
     serviceBreakdown |-> summary.serviceBreakdown,
     domainBreakdown  |-> summary.domainBreakdown,
     weakAreas        |-> summary.weakAreas,
     strongAreas      |-> summary.strongAreas,
     topKeywords      |-> summary.topKeywords,
     recommendations  |-> generateRecommendations(summary, analyses)]

generateSummary(analyses) ==
    WithRecommendations(
        SummaryObject(analyses, Len(analyses),
                      CountWhere(analyses, LAMBDA a : a.isCorrect),
                      Breakdown(analyses, LAMBDA a : a.tags.services)),
        analyses)

\* The colour with the bounds of the buckets excluded.
getHeatColorAbove(accuracy) ==
    IF RatLess(RatOfInt(85), accuracy) THEN "#22c55e"
    ELSE IF RatLess(RatOfInt(70), accuracy) THEN "#eab308"
    ELSE IF RatLess(RatOfInt(50), accuracy) THEN "#f97316"
    ELSE "#ef4444"

getHeatColor(accuracy) ==
    IF RatLeq(RatOfInt(85), accuracy) THEN "#22c55e"
    ELSE IF RatLeq(RatOfInt(70), accuracy) THEN "#eab308"
    ELSE IF RatLeq(RatOfInt(50), accuracy) THEN "#f97316"
    ELSE "#ef4444"

getStatus(accuracy) ==
    IF RatLeq(RatOfInt(85), accuracy) THEN "Strong"
    ELSE IF RatLeq(RatOfInt(70), accuracy) THEN "Good"
    ELSE IF RatLeq(RatOfInt(50), accuracy) THEN "Review"
    ELSE "Weak"

\* Object.entries(summary.serviceBreakdown).map(([service, data]) => ({ ... }))
HeatmapItem(data) ==
    [service  |-> data.key,
     accuracy |-> data.accuracy,
     total    |-> data.total,
     color    |-> getHeatColor(data.accuracy),
     status   |-> getStatus(data.accuracy)]

HeatmapItems(breakdown) == [i \in 1..Len(breakdown) |-> HeatmapItem(breakdown[i])]

\* The items in the order of the breakdown.
generateHeatmapDataUnsorted(summary) == HeatmapItems(summary.serviceBreakdown)

\* heatmapData.sort((a, b) => a.accuracy - b.accuracy)
generateHeatmapData(summary) ==
    SortBy(HeatmapItems(summary.serviceBreakdown),
           LAMBDA a, b : RatLess(b.accuracy, a.accuracy))

\* ------------------------------------------------------------------------
\* ocr.ts and index.ts: the data of a run
\* ------------------------------------------------------------------------

\* The texts the OCR engine can recognize in an image (recognize's
\* data.text, before ocrImage trims it).
OCR_TEXTS ==
    << Chars("Question: What is S3? A) Object storage B) Block storage Your Answer: A Correct Answer: A Explanation: S3 is object storage."),
       Chars("Q2. Which IAM policy grants least privilege?\r\nA. Admin access\r\nB. A scoped role\r\nYour Answer: A\r\nCorrect Answer: B\r\nExplanation: scope it.\n"),
       Chars(" AWS Systems Manager Parameter Store \n"),
       Chars(" \n"),
       Chars("Which KMS key?\nYour Answer: C") >>

TextIds == 1..Len(OCR_TEXTS)

\* The uploaded archives: the files each holds (path below the extraction
\* directory, the text the engine reads in it, whether readFileSync succeeds).
File(path, text, readable) == [path |-> path, text |-> text, readable |-> readable]

ZIPS ==
    << { File("notes.txt", 4, TRUE), File("__MACOSX/q1.png", 1, TRUE),
         File(".thumbs/q2.png", 2, TRUE) },
       { File("b/q2.png", 2, TRUE), File("a.png", 1, TRUE),
         File("Q3.JPG", 3, TRUE), File("readme.md", 4, TRUE) },
       { File("a.png", 4, TRUE), File("q10.png", 1, FALSE),
         File("q2.webp", 5, TRUE) } >>

ZipIds == 1..Len(ZIPS)

Requests == {"r1", "r2"}

\* The most workers createWorker hands out in a run.
MaxWorkers == 2

\* The longest sequence of analyses handed to generateSummary on its own
\* when every analysis is chosen freely.
MaxBatch == 3

\* The longest sequence of analyses handed to generateSummary on its own.
MaxRepeated == 20

\* ------------------------------------------------------------------------
\* index.ts: getAllImageFiles
\* ------------------------------------------------------------------------

\* UTF-16 code unit order of the characters of the paths.
CodeUnits == Chars(" -./0123456789ABCDEFGHIJKLMNOPQRSTUVWXYZ_abcdefghijklmnopqrstuvwxyz")
CodeUnit(c) == CHOOSE i \in 1..Len(CodeUnits) : CodeUnits[i] = c

\* The default comparison of Array.prototype.sort on strings.
StringLess(a, b) ==
    \E k \in 1..(Len(b)) :
        /\ \A j \in 1..(k - 1) : j <= Len(a) /\ a[j] = b[j]
        /\ \/ k = Len(a) + 1
           \/ k <= Len(a) /\ CodeUnit(a[k]) < CodeUnit(b[k])

\* The components of a path between its separators.
RECURSIVE Components(_)
Components(path) ==
    LET slash == FirstFrom(path, 1, LAMBDA k : path[k] = "/")
    IN  IF slash > Len(path) THEN <<path>>
        ELSE <<SubSeq(path, 1, slash - 1)>> \o Components(SubSeq(path, slash + 1, Len(path)))

Last(seq) == seq[Len(seq)]

\* path.basename
basename(path) == Last(Components(path))

\* /\.(png|jpg|jpeg|webp)$/i.test(entry.name)
IsImageName(name) ==
    \E ext \in {".png", ".jpg", ".jpeg", ".webp"} :
        MatchCI(name, Len(name) - Len(ext) + 1, Chars(ext))

\* traverse does not enter a directory whose name starts with . or __
SkippedDirectory(name) ==
    MatchCI(name, 1, Chars(".")) \/ MatchCI(name, 1, Chars("__"))

\* traverse reaches the file of these path components and keeps it.
TraversedTo(cs) ==
    /\ \A i \in 1..(Len(cs) - 1) : ~SkippedDirectory(cs[i])
    /\ IsImageName(Last(cs))

Traversed(path) == TraversedTo(Components(path))

\* files.sort()
RECURSIVE SortedPaths(_)
SortedPaths(paths) ==
    IF paths = {} THEN <<>>
    ELSE LET least == CHOOSE p \in paths :
                        \A q \in paths \ {p} : StringLess(Chars(p), Chars(q))
         IN  <<least>> \o SortedPaths(paths \ {least})

getAllImageFiles(dir) ==
    SortedPaths({f.path : f \in {g \in dir : Traversed(Chars(g.path))}})

\* ------------------------------------------------------------------------
\* ocr.ts and index.ts: the upload request
\* ------------------------------------------------------------------------

VARIABLES
    worker,     \* ocr.ts: the module-level handle, 0 for null, else a worker
    workers,    \* the workers createWorker has made: who asked, live or terminated
    extracted,  \* the files of EXTRACT_DIR
    results,    \* the requests whose results file is in RESULTS_DIR
    uploads,    \* the requests whose uploaded archive is in UPLOADS_DIR
    req,        \* per upload request: its position and its local variables
    arrivals,   \* how the clients send uploads: "one at a time" or "any time"
    batch,      \* generateSummary on its own: the analyses handed to it
    summarized  \* generateSummary on its own: <<>> or <<its result, the heatmap of it>>

vars == <<worker, workers, extracted, results, uploads, req, arrivals, batch, summarized>>

\* What ocrImage returns for the text the engine recognized.
ocrText(text) ==
    IF Len(text) = 0 \/ Len(trim(text)) = 0 THEN <<>> ELSE trim(text)

\* The try block of the loop after OCR: parse, tag, compare the answers.
Compared(parsed, tags) ==
    [parsed    |-> parsed,
     tags      |-> tags,
     isCorrect |-> parsed.yourAnswer = parsed.correctAnswer]

Processed(extractedText) ==
    Compared(parseQuestion(extractedText), tagQuestion(extractedText))

ProcessedText == [t \in TextIds |-> Processed(ocrText(OCR_TEXTS[t]))]

\* analyses.push({ file, parsed, tags, isCorrect })
Pushed(fileName, p) ==
    [file      |-> fileName,
     parsed    |-> p.parsed,
     tags      |-> p.tags,
     isCorrect |-> p.isCorrect]

Analysis(fileName, t) == Pushed(fileName, ProcessedText[t])

\* The entry the catch block of the loop pushes.
FailedAnalysis(fileName, message) ==
    [file      |-> fileName,
     parsed    |-> [question |-> <<>>, options |-> <<>>, yourAnswer |-> <<>>,
                    correctAnswer |-> <<>>, explanation |-> <<>>,
                    rawText |-> Chars("Error: ") \o message],
     tags      |-> [services |-> <<>>, domains |-> <<>>, keywords |-> <<>>],
     isCorrect |-> FALSE]

ReadError == Chars("ENOENT: no such file or directory")
\* ocrImage's catch: throw new Error(`OCR failed: ${error.message}`)
OcrError == Chars("OCR failed: ") \o Chars("engine error")

NoResponse == [status |-> 0]

IdleRequest ==
    [pc |-> "idle", zip |-> 0, imageFiles |-> <<>>, i |-> 0, analyses |-> <<>>,
     buffer |-> 0, ocrWorker |-> 0, terminating |-> 0, responseData |-> <<>>,
     response |-> NoResponse,
     \* history of the request
     listed |-> FALSE, ocrCalls |-> <<>>, recognized |-> <<>>, created |-> {},
     caught |-> {}]

FileName(rq, n) == basename(Chars(rq.imageFiles[n]))

\* The loop when an image that cannot be read ends it.
LoopFromAbort(rq, dir, n, acc) ==
    IF n >= Len(rq.imageFiles)
    THEN [i |-> n, analyses |-> acc, buffer |-> 0, caught |-> {}]
    ELSE LET hit == {f \in dir : f.path = rq.imageFiles[n + 1] /\ f.readable}
         IN  IF hit = {}
             THEN [i |-> Len(rq.imageFiles),
                   analyses |-> Append(acc, FailedAnalysis(FileName(rq, n + 1), ReadError)),
                   buffer |-> 0, caught |-> {n + 1}]
             ELSE [i |-> n, analyses |-> acc, buffer |-> (CHOOSE f \in hit : TRUE).text,
                   caught |-> {}]

\* The loop from image n + 1 on, up to the next ocrImage call: an image
\* that readFileSync cannot read gets its failed entry and the loop goes on.
RECURSIVE LoopFrom(_, _, _, _)
LoopFrom(rq, dir, n, acc) ==
    IF n >= Len(rq.imageFiles)
    THEN [i |-> n, analyses |-> acc, buffer |-> 0, caught |-> {}]
    ELSE LET hit == {f \in dir : f.path = rq.imageFiles[n + 1] /\ f.readable}
         IN  IF hit = {}
             THEN LET rest == LoopFrom(rq, dir, n + 1,
                                Append(acc, FailedAnalysis(FileName(rq, n + 1), ReadError)))
                  IN  [rest EXCEPT !.caught = @ \cup {n + 1}]
             ELSE [i |-> n, analyses |-> acc, buffer |-> (CHOOSE f \in hit : TRUE).text,
                   caught |-> {}]

Outcome(rq, wrote, removed) == [rq |-> rq, wrote |-> wrote, removed |-> removed]

Failure(rq, message) ==
    [rq EXCEPT !.pc = "done", !.response = [status |-> 500, error |-> message]]

\* After cleanupOCR: fs.unlinkSync(zipPath), which can throw, and res.json.
Finish(rq, wrote) ==
    { Outcome(Failure(rq, "unlink failed"), wrote, FALSE),
      Outcome([rq EXCEPT !.pc = "done",
                         !.response = [status |-> 200, data |-> rq.responseData]],
              wrote, TRUE) }

\* After the loop: summary, heatmap, response data, fs.writeFileSync, which
\* can throw, and cleanupOCR, which awaits terminate when the handle is set.
ResponseData(analyses, summary) ==
    [success        |-> TRUE,
     processedCount |-> Len(analyses),
     summary        |-> summary,
     heatmap        |-> generateHeatmapData(summary),
     quickStats     |-> [accuracy      |-> toFixed1(summary.accuracy),
                         correct       |-> summary.correctCount,
                         incorrect     |-> summary.incorrectCount,
                         totalServices |-> Len(summary.serviceBreakdown),
                         weakAreaCount |-> Len(summary.weakAreas)]]

\* fs.writeFileSync, which can throw, then cleanupOCR.
WriteResults(ready, w) ==
    {Outcome(Failure(ready, "write failed"), FALSE, FALSE)}
      \cup (IF w # 0
            THEN {Outcome([ready EXCEPT !.pc = "terminate", !.terminating = w],
                          TRUE, FALSE)}
            ELSE Finish(ready, TRUE))

PostLoop(rq, w) ==
    WriteResults([rq EXCEPT !.responseData =
                      ResponseData(rq.analyses, generateSummary(rq.analyses))], w)

\* The handler from the head of the loop with n images done, up to its
\* next await; w is the handle as the handler finds it.
\* The request when the loop has advanced to the state st.
Advanced(rq, st) ==
    [rq EXCEPT !.i = st.i, !.analyses = st.analyses, !.buffer = st.buffer,
               !.caught = @ \cup st.caught]

\* ocrImage is called for the next image: getWorker awaits createWorker
\* when the handle is null, else recognize is called on the handle.
CallOcr(at, w) ==
    LET called == [at EXCEPT !.ocrCalls = Append(@, at.imageFiles[at.i + 1])]
    IN  IF w = 0
        THEN {Outcome([called EXCEPT !.pc = "createWorker"], FALSE, FALSE)}
        ELSE {Outcome([called EXCEPT !.pc = "recognize", !.ocrWorker = w,
                         !.recognized = Append(@, [file |-> at.imageFiles[at.i + 1],
                                                   worker |-> w])],
                      FALSE, FALSE)}

AfterLoop(at, w) ==
    IF at.i < Len(at.imageFiles) THEN CallOcr(at, w) ELSE PostLoop(at, w)

Resume(rq, dir, n, acc, w) == AfterLoop(Advanced(rq, LoopFrom(rq, dir, n, acc)), w)

Take(r, outcomes) ==
    \E o \in outcomes :
        /\ req' = [req EXCEPT ![r] = o.rq]
        /\ results' = IF o.wrote THEN results \cup {r} ELSE results
        /\ uploads' = IF o.removed THEN uploads \ {r} ELSE uploads

InFlight(r) == req[r].pc \notin {"idle", "done"}

Start ==
    /\ worker = 0
    /\ workers = <<>>
    /\ extracted = {}
    /\ results = {}
    /\ uploads = {}
    /\ req = [r \in Requests |-> IdleRequest]
    /\ batch = <<>>
    /\ summarized = <<>>

\* Upload requests interleave at their awaits.
Init == Start /\ arrivals = "any time"

\* One upload request at a time.
SoloInit == Start /\ arrivals = "one at a time"

\* The request arrives: without a file it is refused, else the extraction
\* directory is emptied and the extraction starts.
Receive(r) ==
    /\ req[r].pc = "idle"
    /\ arrivals = "one at a time" => \A q \in Requests : ~InFlight(q)
    /\ \E z \in ZipIds \cup {0} :
         IF z = 0
         THEN /\ req' = [req EXCEPT ![r].pc = "done",
                                    ![r].response = [status |-> 400,
                                                     error |-> "No zip uploaded"]]
              /\ UNCHANGED <<extracted, uploads>>
         ELSE /\ req' = [req EXCEPT ![r].pc = "extract", ![r].zip = z]
              /\ extracted' = {}
              /\ uploads' = uploads \cup {r}
    /\ UNCHANGED <<worker, workers, results, arrivals, batch, summarized>>

\* extract-zip: the files of the archive are written over EXTRACT_DIR.
Extracted(dir, zip) == {f \in dir : \A g \in zip : g.path # f.path} \cup zip

\* The handler once getAllImageFiles has returned into rq.imageFiles.
Listed(r, rq, dir) ==
    IF Len(rq.imageFiles) = 0
    THEN /\ req' = [req EXCEPT ![r] =
                      [rq EXCEPT !.pc = "done",
                                 !.response = [status |-> 400,
                                               error |-> "No image files found in ZIP"]]]
         /\ UNCHANGED <<results, uploads>>
    ELSE Take(r, Resume(rq, dir, 0, <<>>, worker))

\* The extraction is over and the loop starts whatever the number of images.
ExtractDoneUnchecked(r) ==
    /\ req[r].pc = "extract"
    /\ extracted' = Extracted(extracted, ZIPS[req[r].zip])
    /\ Take(r, Resume([req[r] EXCEPT !.imageFiles = getAllImageFiles(extracted'),
                                     !.listed = TRUE],
                      extracted', 0, <<>>, worker))
    /\ UNCHANGED <<worker, workers, arrivals, batch, summarized>>

\* The extraction is over: the images are listed and the loop starts.
ExtractDone(r) ==
    /\ req[r].pc = "extract"
    /\ extracted' = Extracted(extracted, ZIPS[req[r].zip])
    /\ Listed(r, [req[r] EXCEPT !.imageFiles = getAllImageFiles(extracted'),
                                !.listed = TRUE],
              extracted')
    /\ UNCHANGED <<worker, workers, arrivals, batch, summarized>>

ExtractFail(r) ==
    /\ req[r].pc = "extract"
    /\ req' = [req EXCEPT ![r] = Failure(@, "extraction failed")]
    /\ UNCHANGED <<worker, workers, extracted, results, uploads, arrivals, batch, summarized>>

\* getWorker: createWorker resolves, the handle is assigned, recognize is called.
CreateWorkerDone(r) ==
    /\ req[r].pc = "createWorker"
    /\ Len(workers) < MaxWorkers
    /\ LET id == Len(workers) + 1
       IN  /\ workers' = Append(workers, [by |-> r, state |-> "live"])
           /\ worker' = id
           /\ req' = [req EXCEPT ![r].pc = "recognize",
                                 ![r].ocrWorker = id,
                                 ![r].created = @ \cup {id},
                                 ![r].recognized =
                                     Append(@, [file |-> req[r].imageFiles[req[r].i + 1],
                                                worker |-> id])]
    /\ UNCHANGED <<extracted, results, uploads, arrivals, batch, summarized>>

\* createWorker rejects: ocrImage throws, the image gets its failed entry.
CreateWorkerFail(r) ==
    /\ req[r].pc = "createWorker"
    /\ LET rq == [req[r] EXCEPT !.caught = @ \cup {req[r].i + 1}]
           acc == Append(rq.analyses, FailedAnalysis(FileName(rq, rq.i + 1), OcrError))
       IN  Take(r, Resume(rq, extracted, rq.i + 1, acc, worker))
    /\ UNCHANGED <<worker, workers, extracted, arrivals, batch, summarized>>

\* recognize resolves on a live worker: parse, tag, push, next image.
RecognizeDone(r) ==
    /\ req[r].pc = "recognize"
    /\ workers[req[r].ocrWorker].state = "live"
    /\ LET rq == req[r]
           acc == Append(rq.analyses, Analysis(FileName(rq, rq.i + 1), rq.buffer))
       IN  Take(r, Resume(rq, extracted, rq.i + 1, acc, worker))
    /\ UNCHANGED <<worker, workers, extracted, arrivals, batch, summarized>>

\* recognize rejects and ocrImage is called again for the same image.
RecognizeFailRetry(r) ==
    /\ req[r].pc = "recognize"
    /\ req' = [req EXCEPT ![r].ocrCalls = Append(@, req[r].imageFiles[req[r].i + 1])]
    /\ UNCHANGED <<worker, workers, extracted, results, uploads, arrivals, batch, summarized>>

\* recognize rejects: ocrImage throws, the image gets its failed entry.
RecognizeFail(r) ==
    /\ req[r].pc = "recognize"
    /\ LET rq == [req[r] EXCEPT !.caught = @ \cup {req[r].i + 1}]
           acc == Append(rq.analyses, FailedAnalysis(FileName(rq, rq.i + 1), OcrError))
       IN  Take(r, Resume(rq, extracted, rq.i + 1, acc, worker))
    /\ UNCHANGED <<worker, workers, extracted, arrivals, batch, summarized>>

\* cleanupOCR that terminates the worker and keeps the handle.
TerminateDoneKeepsHandle(r) ==
    /\ req[r].pc = "terminate"
    /\ workers' = [workers EXCEPT ![req[r].terminating].state = "terminated"]
    /\ Take(r, Finish(req[r], FALSE))
    /\ UNCHANGED <<worker, extracted, arrivals, batch, summarized>>

\* cleanupOCR after its await: the handle is cleared, then the archive is
\* deleted and the response sent.
TerminateDone(r) ==
    /\ req[r].pc = "terminate"
    /\ workers' = [workers EXCEPT ![req[r].terminating].state = "terminated"]
    /\ worker' = 0
    /\ Take(r, Finish(req[r], FALSE))
    /\ UNCHANGED <<extracted, arrivals, batch, summarized>>

Next ==
    \E r \in Requests :
        \/ Receive(r)
        \/ ExtractDone(r)
        \/ ExtractFail(r)
        \/ CreateWorkerDone(r)
        \/ CreateWorkerFail(r)
        \/ RecognizeDone(r)
        \/ RecognizeFail(r)
        \/ TerminateDone(r)

Spec == Init /\ [][Next]_vars

SoloSpec == SoloInit /\ [][Next]_vars

\* ------------------------------------------------------------------------
\* analyzer.ts on its own: generateSummary applied to a sequence of analyses
\* ------------------------------------------------------------------------

Tagged(services, domains, kws, isCorrect) ==
    [file      |-> Chars("x.png"),
     parsed    |-> [question |-> <<>>, options |-> <<>>, yourAnswer |-> <<>>,
                    correctAnswer |-> <<>>, explanation |-> <<>>, rawText |-> <<>>],
     tags      |-> [services |-> services, domains |-> domains, keywords |-> kws],
     isCorrect |-> isCorrect]

\* Analyses built by hand, tagged with one service or with two.
TaggedAnalyses ==
    {Tagged(<<"IAM">>, <<"Security">>, <<"IAM role">>, c) : c \in BOOLEAN}
      \cup {Tagged(<<"Lambda", "IAM">>,
                   <<"Development with AWS Services", "Security">>,
                   <<"serverless">>, c) : c \in BOOLEAN}

\* An analysis built by hand whose text holds more keywords than
\* topKeywords keeps.
KeywordAnalysis == Tagged(<<>>, <<>>, SubSeq(keywords, 1, TopKeywordCount + 1), FALSE)

\* The analyses a caller can hand over: those the upload loop builds and
\* some built by hand.
InputAnalyses ==
    {Analysis(Chars("q.png"), t) : t \in TextIds}
      \cup {FailedAnalysis(Chars("q.png"), OcrError)}
      \cup TaggedAnalyses
      \cup {KeywordAnalysis}

AddAnalysis ==
    /\ summarized = <<>>
    /\ Len(batch) < MaxBatch
    /\ \E a \in InputAnalyses : batch' = Append(batch, a)
    /\ UNCHANGED <<worker, workers, extracted, results, uploads, req, arrivals, summarized>>

\* A longer input: one more analysis like the last one built by hand.
RepeatAnalysis ==
    /\ summarized = <<>>
    /\ Len(batch) > 0
    /\ Len(batch) < MaxRepeated
    /\ Last(batch) \in TaggedAnalyses
    /\ batch' = Append(batch, Last(batch))
    /\ UNCHANGED <<worker, workers, extracted, results, uploads, req, arrivals, summarized>>

\* A longer input of two runs: after a run of one analysis built by hand,
\* the same analysis with the other outcome.
SwitchAnalysis ==
    /\ summarized = <<>>
    /\ Len(batch) > 0
    /\ Len(batch) < MaxRepeated
    /\ Last(batch) \in TaggedAnalyses
    /\ \A i \in 1..Len(batch) : batch[i] = Last(batch)
    /\ batch' = Append(batch, [Last(batch) EXCEPT !.isCorrect = ~@])
    /\ UNCHANGED <<worker, workers, extracted, results, uploads, req, arrivals, summarized>>

\* const summary = generateSummary(analyses);
\* const heatmap = generateHeatmapData(summary);
Summarized(summary) == <<summary, generateHeatmapData(summary)>>

Summarize ==
    /\ summarized = <<>>
    /\ summarized' = Summarized(generateSummary(batch))
    /\ UNCHANGED <<worker, workers, extracted, results, uploads, req, arrivals, batch>>

SummaryNext == AddAnalysis \/ RepeatAnalysis \/ SwitchAnalysis \/ Summarize

SummarySpec == SoloInit /\ [][SummaryNext]_vars

\* ------------------------------------------------------------------------
\* Properties
\* ------------------------------------------------------------------------

Distinct(seq) == \A i, j \in 1..Len(seq) : i # j => seq[i] # seq[j]

\* The analyses of a sequence whose tag list (services or domains) holds key.
TaggedWith(analyses, TagList(_), key) ==
    {k \in 1..Len(analyses) : key \in Range(TagList(analyses[k]))}

ServicesOf(a) == a.tags.services
DomainsOf(a) == a.tags.domains

\* The request has generated its summary.
HasSummary(r) == req[r].responseData # <<>>
SummaryOf(r) == req[r].responseData.summary

NoAnswerLabel(a) ==
    /\ ~includes(a.parsed.rawText, Chars("Your Answer"))
    /\ ~includes(a.parsed.rawText, Chars("Correct Answer"))

\* C1: in every batch of the upload pipeline, an image whose recognized text
\* holds neither a "Your Answer" nor a "Correct Answer" label (empty text
\* included) gets yourAnswer = "", correctAnswer = "" and isCorrect = false,
\* so the summary counts it as incorrect and not as correct.
C1_UnlabelledCountsAsIncorrect ==
    \A r \in Requests :
        LET analyses == req[r].analyses
            unlabelled == {k \in 1..Len(analyses) : NoAnswerLabel(analyses[k])}
        IN  /\ \A k \in unlabelled :
                  /\ analyses[k].parsed.yourAnswer = <<>>
                  /\ analyses[k].parsed.correctAnswer = <<>>
                  /\ analyses[k].isCorrect = FALSE
            /\ HasSummary(r) =>
                  /\ SummaryOf(r).incorrectCount >= Cardinality(unlabelled)
                  /\ SummaryOf(r).correctCount <= Len(analyses) - Cardinality(unlabelled)

\* C2: the services list tagQuestion returns holds no name more than once:
\* each name of the reference list that the uppercased text mentions is in
\* the list exactly once.
C2_ServicesHaveNoDuplicate ==
    \A r \in Requests : \A k \in 1..Len(req[r].analyses) :
        LET a == req[r].analyses[k]
        IN  /\ Distinct(a.tags.services)
            /\ k \notin req[r].caught =>
                  \A i \in 1..Len(AWS_SERVICES) :
                      ServiceMentioned(toUpperCase(a.parsed.rawText), AWS_SERVICES[i]) =>
                          Cardinality({j \in 1..Len(a.tags.services) :
                                         a.tags.services[j] = AWS_SERVICES[i]}) = 1

\* C3: after generateSummary on a batch of the pipeline, no area of weakAreas
\* or strongAreas names a service that fewer than 2 analyses of the batch
\* are tagged with.
C3_AreasHaveTwoObservations ==
    \A r \in Requests :
        HasSummary(r) =>
            \A area \in Range(SummaryOf(r).weakAreas) \cup Range(SummaryOf(r).strongAreas) :
                Cardinality(TaggedWith(req[r].analyses, ServicesOf, area.service)) >= 2

\* The entries of a breakdown count the analyses tagged with their key, and
\* there is an entry for a key only if some analysis is tagged with it.
CountsAnalyses(breakdown, analyses, TagList(_)) ==
    \A i \in 1..Len(breakdown) :
        LET e == breakdown[i]
            tagged == TaggedWith(analyses, TagList, e.key)
        IN  /\ tagged # {}
            /\ e.total = Cardinality(tagged)
            /\ e.correct = Cardinality({k \in tagged : analyses[k].isCorrect})
            /\ e.incorrect = Cardinality({k \in tagged : ~analyses[k].isCorrect})
            /\ e.correct + e.incorrect = e.total
            /\ e.total <= Len(analyses)

\* C4: after generateSummary on a batch of the pipeline, every entry of the
\* service breakdown and of the domain breakdown has total = the number of
\* analyses tagged with its key, correct = those of them that are correct,
\* incorrect = the rest, and an entry exists only for a tagged key.
C4_BreakdownCountsAnalyses ==
    \A r \in Requests :
        HasSummary(r) =>
            /\ CountsAnalyses(SummaryOf(r).serviceBreakdown, req[r].analyses, ServicesOf)
            /\ CountsAnalyses(SummaryOf(r).domainBreakdown, req[r].analyses, DomainsOf)
            /\ SummaryOf(r).totalQuestions = Len(req[r].analyses)

\* accuracy * total = correct * 100
IsPercentage(accuracy, correct, total) ==
    /\ accuracy.den > 0
    /\ accuracy.num * total = correct * 100 * accuracy.den

FailedShape(a) ==
    /\ a.parsed.question = <<>>
    /\ a.parsed.options = <<>>
    /\ a.parsed.yourAnswer = <<>>
    /\ a.parsed.correctAnswer = <<>>
    /\ a.parsed.explanation = <<>>
    /\ Len(a.parsed.rawText) > 7
    /\ SubSeq(a.parsed.rawText, 1, 7) = Chars("Error: ")
    /\ a.tags.services = <<>>
    /\ a.tags.domains = <<>>
    /\ a.tags.keywords = <<>>
    /\ a.isCorrect = FALSE

\* The loop of the request is over.
LoopOver(r) == req[r].listed /\ req[r].imageFiles # <<>> /\ req[r].pc \in {"terminate", "done"}

\* C6: in an upload batch a failed image (ocrImage throws or the read throws)
\* does not abort the batch: the later images are processed and the analyses
\* end as one record per image file found, in lexicographic path order, the
\* record of a failed image having empty parsed fields, an error marker as
\* rawText, empty tags and isCorrect = false.
C6_FailedImageDoesNotAbort ==
    \A r \in Requests :
        LET rq == req[r]
        IN  /\ rq.listed =>
                  /\ Range(rq.imageFiles) =
                        {f.path : f \in {g \in ZIPS[rq.zip] : Traversed(Chars(g.path))}}
                  /\ \A j, k \in 1..Len(rq.imageFiles) :
                        j < k => StringLess(Chars(rq.imageFiles[j]), Chars(rq.imageFiles[k]))
            /\ Len(rq.analyses) <= Len(rq.imageFiles)
            /\ \A k \in 1..Len(rq.analyses) :
                  rq.analyses[k].file = basename(Chars(rq.imageFiles[k]))
            /\ \A k \in rq.caught :
                  k <= Len(rq.analyses) /\ FailedShape(rq.analyses[k])
            /\ LoopOver(r) => Len(rq.analyses) = Len(rq.imageFiles)

\* A batch answered with success in which an image failed and the image
\* after it was processed.
C6_Witness ==
    \E r \in Requests :
        /\ req[r].response.status = 200
        /\ \E k \in req[r].caught :
              /\ k < Len(req[r].analyses)
              /\ k + 1 \notin req[r].caught
              /\ req[r].analyses[k + 1].parsed.rawText # <<>>

NoImagesResponse == [status |-> 400, error |-> "No image files found in ZIP"]

\* C7: when the extracted archive holds no image file the request is
\* answered 400 "No image files found in ZIP" before any image is processed:
\* no ocrImage call, no worker created, no summary, no results file.
C7_NoImagesShortCircuits ==
    \A r \in Requests :
        LET rq == req[r]
        IN  /\ (rq.listed /\ rq.imageFiles = <<>>) =>
                  /\ rq.pc = "done"
                  /\ rq.response = NoImagesResponse
                  /\ rq.ocrCalls = <<>>
                  /\ rq.recognized = <<>>
                  /\ rq.created = {}
                  /\ \A w \in 1..Len(workers) : workers[w].by # r
                  /\ rq.analyses = <<>>
                  /\ rq.responseData = <<>>
                  /\ r \notin results
            /\ rq.response = NoImagesResponse => rq.listed /\ rq.imageFiles = <<>>

\* A request on an archive without image file, answered.
C7_Witness ==
    \E r \in Requests :
        /\ req[r].zip # 0
        /\ getAllImageFiles(ZIPS[req[r].zip]) = <<>>
        /\ req[r].response = NoImagesResponse

\* The workers a request has recognized images with.
UsedWorkers(rq) == {rq.recognized[k].worker : k \in 1..Len(rq.recognized)}

C8_OneWorker ==
    \A r \in Requests :
        LET rq == req[r]
        IN  /\ Cardinality(rq.created) <= 1
            /\ Cardinality(UsedWorkers(rq)) <= 1
            /\ rq.created \subseteq UsedWorkers(rq)
            /\ rq.created # {} => rq.ocrCalls # <<>>
            /\ rq.pc = "createWorker" => worker = 0

C8_ReleasedAtSuccess ==
    \A r \in Requests :
        (req[r].response.status # 200 /\ req'[r].response.status = 200) =>
            /\ worker' = 0
            /\ \A w \in UsedWorkers(req'[r]) : workers'[w].state = "terminated"

C9_WorkerNotShared ==
    \A r \in Requests :
        /\ \A q \in Requests \ {r} :
              (InFlight(r) /\ InFlight(q)) =>
                  UsedWorkers(req[r]) \cap (UsedWorkers(req[q]) \cup req[q].created) = {}
        /\ req[r].pc = "recognize" => workers[req[r].ocrWorker].state = "live"

\* C10: for the text of Scenario 1 parseQuestion returns the question
\* "What is S3?", the options "A: Object storage" and "B: Block storage",
\* yourAnswer "A" and correctAnswer "A", isCorrect is true and the services
\* of tagQuestion include "S3".
C10_ScenarioOne ==
    \A r \in Requests : \A k \in 1..Len(req[r].analyses) :
        LET a == req[r].analyses[k]
        IN  a.parsed.rawText = OCR_TEXTS[1] =>
              /\ a.parsed.question = Chars("What is S3?")
              /\ a.parsed.options = <<Chars("A: Object storage"), Chars("B: Block storage")>>
              /\ a.parsed.yourAnswer = <<"A">>
              /\ a.parsed.correctAnswer = <<"A">>
              /\ a.isCorrect
              /\ "S3" \in Range(a.tags.services)

\* The areas generateSummary is to report for a breakdown: its entries of at
\* least 2 observations whose accuracy satisfies InBand.
ExpectedAreas(breakdown, InBand(_)) ==
    {[service |-> e.key, accuracy |-> e.accuracy, questionsReviewed |-> e.total] :
        e \in {x \in Range(breakdown) : x.total >= 2 /\ InBand(x.accuracy)}}

Below70(accuracy) == accuracy.num < 70 * accuracy.den
AtLeast85(accuracy) == accuracy.num >= 85 * accuracy.den

\* C11: after generateSummary, weakAreas is in non-decreasing order of
\* accuracy and strongAreas in non-increasing order; weakAreas holds exactly
\* the entries of the service breakdown with total >= 2 and accuracy < 70,
\* strongAreas exactly those with total >= 2 and accuracy >= 85, each once,
\* and no service is in both lists.
C11_AreasSortedAndExact ==
    summarized # <<>> =>
        LET weak == summarized[1].weakAreas
            strong == summarized[1].strongAreas
        IN  /\ \A i \in 1..(Len(weak) - 1) : RatLeq(weak[i].accuracy, weak[i + 1].accuracy)
            /\ \A i \in 1..(Len(strong) - 1) :
                  RatLeq(strong[i + 1].accuracy, strong[i].accuracy)
            /\ Range(weak) = ExpectedAreas(summarized[1].serviceBreakdown, Below70)
            /\ Range(strong) = ExpectedAreas(summarized[1].serviceBreakdown, AtLeast85)
            /\ Distinct(weak)
            /\ Distinct(strong)
            /\ \A w \in Range(weak) : \A g \in Range(strong) : w.service # g.service

\* A summary with a strong area ahead and two weak areas that the breakdown
\* holds in decreasing order of accuracy, so that the sort moved them.
C11_Witness ==
    /\ summarized # <<>>
    /\ Len(summarized[1].strongAreas) >= 1
    /\ Len(summarized[1].weakAreas) = 2
    /\ RatLess(summarized[1].weakAreas[1].accuracy, summarized[1].weakAreas[2].accuracy)
    /\ \E i, j \in 1..Len(summarized[1].serviceBreakdown) :
          /\ i < j
          /\ summarized[1].serviceBreakdown[i].key = summarized[1].weakAreas[2].service
          /\ summarized[1].serviceBreakdown[j].key = summarized[1].weakAreas[1].service

\* The places of the input where a keyword stands: analysis, then position
\* in its tags.keywords.
MentionsIn(n, k) ==
    {<<n, i>> : i \in {j \in 1..Len(batch[n].tags.keywords) : batch[n].tags.keywords[j] = k}}

Mentions(k) == UNION {MentionsIn(n, k) : n \in 1..Len(batch)}

Mentioned == UNION {Range(batch[n].tags.keywords) : n \in 1..Len(batch)}

Before(p, q) == p[1] < q[1] \/ (p[1] = q[1] /\ p[2] < q[2])

\* The place where a keyword is seen for the first time.
FirstAnalysis(k) ==
    CHOOSE n \in 1..Len(batch) :
        /\ MentionsIn(n, k) # {}
        /\ \A m \in 1..(n - 1) : MentionsIn(m, k) = {}

FirstIn(kws, k) == CHOOSE i \in 1..Len(kws) : kws[i] = k /\ \A j \in 1..(i - 1) : kws[j] # k

FirstAt(n, k) == <<n, FirstIn(batch[n].tags.keywords, k)>>

FirstMention(k) == FirstAt(FirstAnalysis(k), k)

\* k is seen for the first time before l is.
SeenBefore(k, l) == Before(FirstMention(k), FirstMention(l))

TopOf(summary) == {summary.topKeywords[i].keyword : i \in 1..Len(summary.topKeywords)}

\* C12: topKeywords has at most 15 entries, of distinct keywords of the
\* input, in non-increasing order of count; the count of an entry is the
\* number of occurrences of its keyword in the tags.keywords of all the
\* analyses; a keyword that is left out has no greater count than any entry;
\* among equal counts the keyword seen first comes first, and is the one
\* that is kept.
C12_TopKeywords ==
    summarized # <<>> =>
        LET top == summarized[1].topKeywords
        IN  /\ Len(top) <= 15
            /\ \A i \in 1..(Len(top) - 1) : top[i].count >= top[i + 1].count
            /\ \A i \in 1..Len(top) : top[i].count = Cardinality(Mentions(top[i].keyword))
            /\ \A i \in 1..Len(top) : top[i].count >= 1
            /\ \A i, j \in 1..Len(top) : i # j => top[i].keyword # top[j].keyword
            /\ \A i \in 1..(Len(top) - 1) :
                 top[i].count = top[i + 1].count
                   => SeenBefore(top[i].keyword, top[i + 1].keyword)
            /\ \A k \in Mentioned \ TopOf(summarized[1]) :
                 /\ Len(top) = 15
                 /\ \A i \in 1..Len(top) :
                      /\ Cardinality(Mentions(k)) <= top[i].count
                      /\ Cardinality(Mentions(k)) = top[i].count
                           => SeenBefore(top[i].keyword, k)

\* More than 15 keywords are counted, one is left out, and the first entry
\* has a greater count than the second although it was seen after it.
C12_Witness ==
    /\ summarized # <<>>
    /\ Len(summarized[1].topKeywords) = 15
    /\ Mentioned \ TopOf(summarized[1]) # {}
    /\ summarized[1].topKeywords[1].count > summarized[1].topKeywords[2].count
    /\ SeenBefore(summarized[1].topKeywords[2].keyword, summarized[1].topKeywords[1].keyword)

\* The entry of a service in the service breakdown of the summary.
EntryOfService(service) ==
    CHOOSE e \in Range(summarized[1].serviceBreakdown) : e.key = service

\* C13: generateHeatmapData returns exactly one item per key of
\* serviceBreakdown, carrying the accuracy and the total of that key, in
\* non-decreasing order of accuracy.
C13_HeatmapItems ==
    summarized # <<>> =>
        LET heatmap == summarized[2]
            breakdown == summarized[1].serviceBreakdown
        IN  /\ Len(heatmap) = Len(breakdown)
            /\ {heatmap[i].service : i \in 1..Len(heatmap)}
                 = {breakdown[i].key : i \in 1..Len(breakdown)}
            /\ \A i, j \in 1..Len(heatmap) : i # j => heatmap[i].service # heatmap[j].service
            /\ \A i \in 1..Len(heatmap) :
                 /\ heatmap[i].accuracy = EntryOfService(heatmap[i].service).accuracy
                 /\ heatmap[i].total = EntryOfService(heatmap[i].service).total
            /\ \A i \in 1..(Len(heatmap) - 1) :
                 RatLeq(heatmap[i].accuracy, heatmap[i + 1].accuracy)

\* The heatmap has three items of increasing accuracy, and its first item
\* is the last key of the breakdown.
C13_Witness ==
    /\ summarized # <<>>
    /\ Len(summarized[2]) = 3
    /\ RatLess(summarized[2][1].accuracy, summarized[2][2].accuracy)
    /\ RatLess(summarized[2][2].accuracy, summarized[2][3].accuracy)
    /\ summarized[2][1].service = summarized[1].serviceBreakdown[3].key

Banding == {"fundamentals", "on-track", "exam-ready"}

Messages(summary) == [i \in 1..Len(summary.recommendations) |-> summary.recommendations[i].msg]

\* The banding message that goes with an overall accuracy, as a set.
BandOf(accuracy) ==
    IF accuracy.num < 60 * accuracy.den THEN {"fundamentals"}
    ELSE IF accuracy.num < 75 * accuracy.den THEN {"on-track"}
    ELSE IF accuracy.num < 85 * accuracy.den THEN {}
    ELSE {"exam-ready"}

\* C14: the recommendations hold at most one banding message: the
\* fundamentals one iff accuracy < 60, the on-track one iff 60 <= accuracy
\* < 75, the exam-ready one iff accuracy >= 85, none iff 75 <= accuracy < 85;
\* when it is present it is the first recommendation.
C14_BandingMessage ==
    summarized # <<>> =>
        LET msgs == Messages(summarized[1])
        IN  /\ Cardinality({i \in 1..Len(msgs) : msgs[i] \in Banding}) <= 1
            /\ Range(msgs) \cap Banding = BandOf(summarized[1].accuracy)
            /\ \A i \in 1..Len(msgs) : msgs[i] \in Banding => i = 1

\* The overall accuracy is exactly 85: the exam-ready message comes first,
\* and another message follows it.
C14_Witness ==
    /\ summarized # <<>>
    /\ summarized[1].accuracy = [num |-> 85, den |-> 1]
    /\ Len(summarized[1].recommendations) >= 2
    /\ summarized[1].recommendations[1].msg = "exam-ready"

\* The analyses of the input that are incorrect and tagged with one of
\* IAM, KMS, Cognito, Secrets Manager.
IncorrectSecurity ==
    {n \in 1..Len(batch) :
        /\ batch[n].isCorrect = FALSE
        /\ \E i \in 1..Len(batch[n].tags.services) :
             batch[n].tags.services[i] \in {"IAM", "KMS", "Cognito", "Secrets Manager"}}

\* C15: the security-pattern message is produced iff at least 3 analyses
\* are incorrect and tagged with a security service; correct analyses do
\* not count.
C15_SecurityPattern ==
    summarized # <<>> =>
        ("security-pattern" \in Range(Messages(summarized[1]))
           <=> Cardinality(IncorrectSecurity) >= 3)

\* Exactly three incorrect analyses tagged IAM produce the message, next to
\* correct ones tagged IAM.
C15_Witness ==
    /\ summarized # <<>>
    /\ Cardinality(IncorrectSecurity) = 3
    /\ \A n \in IncorrectSecurity : batch[n].tags.services = <<"IAM">>
    /\ \E n \in 1..Len(batch) : batch[n].isCorrect /\ batch[n].tags.services = <<"IAM">>
    /\ "security-pattern" \in Range(Messages(summarized[1]))

\* The bucket of an accuracy: 4 from 85 on, 3 from 70 on, 2 from 50 on,
\* else 1.
Bucket(accuracy) ==
    IF accuracy.num >= 85 * accuracy.den THEN 4
    ELSE IF accuracy.num >= 70 * accuracy.den THEN 3
    ELSE IF accuracy.num >= 50 * accuracy.den THEN 2
    ELSE 1

BucketStatus == <<"Weak", "Review", "Good", "Strong">>
BucketColor == <<"#ef4444", "#f97316", "#eab308", "#22c55e">>

\* C17: a heatmap item's status and color are those of the bucket of its
\* accuracy, with inclusive lower bounds: Strong and #22c55e from 85,
\* Good and #eab308 from 70, Review and #f97316 from 50, else Weak and
\* #ef4444; the color and the status always name the same bucket.
C17_HeatColorAndStatus ==
    summarized # <<>> =>
        \A i \in 1..Len(summarized[2]) :
            /\ summarized[2][i].status = BucketStatus[Bucket(summarized[2][i].accuracy)]
            /\ summarized[2][i].color = BucketColor[Bucket(summarized[2][i].accuracy)]

\* An item stands on the bound 85 and is Strong and green.
C17_Witness ==
    /\ summarized # <<>>
    /\ \E i \in 1..Len(summarized[2]) :
          /\ summarized[2][i].accuracy = [num |-> 85, den |-> 1]
          /\ summarized[2][i].status = "Strong"
          /\ summarized[2][i].color = "#22c55e"

\* The ocrImage calls of a request for its n-th image.
Calls(rq, n) == Cardinality({k \in 1..Len(rq.ocrCalls) : rq.ocrCalls[k] = rq.imageFiles[n]})

\* An ocrImage call of the request has not returned.
Recognizing(rq) == rq.pc \in {"createWorker", "recognize"}

\* The record of an image that readFileSync could not read.
UnreadRecord(a) == a.parsed.rawText = Chars("Error: ") \o ReadError

\* The calls for the images that have no record yet: one for the next image
\* when a call is pending, none for the others.
PendingCalls(rq) ==
    /\ \A k \in 1..Len(rq.ocrCalls) : \E n \in 1..Len(rq.imageFiles) :
          rq.ocrCalls[k] = rq.imageFiles[n]
    /\ \A n \in (Len(rq.analyses) + 1)..Len(rq.imageFiles) :
          Calls(rq, n) = IF n = Len(rq.analyses) + 1 /\ Recognizing(rq) THEN 1 ELSE 0
    /\ Recognizing(rq) => Len(rq.analyses) < Len(rq.imageFiles)

\* An ocrImage call starts when the records of exactly the images before
\* its image are appended, and then no other call of the batch is pending.
C16_CallStep ==
    \A r \in Requests :
        req'[r].ocrCalls # req[r].ocrCalls =>
            /\ Len(req'[r].analyses) < Len(req'[r].imageFiles)
            /\ req'[r].ocrCalls =
                 Append(req[r].ocrCalls, req'[r].imageFiles[Len(req'[r].analyses) + 1])
            /\ Recognizing(req[r]) => Len(req'[r].analyses) > Len(req[r].analyses)

C16_CallsAsStated ==
    \A r \in Requests :
        /\ PendingCalls(req[r])
        /\ \A n \in 1..Len(req[r].analyses) : Calls(req[r], n) = 1
        /\ LoopOver(r) => Len(req[r].analyses) = Len(req[r].imageFiles)

\* The claim as it is stated: recognition is attempted exactly once for
\* every image of the batch.
C16_ExactlyOncePerImage == []C16_CallsAsStated /\ [][C16_CallStep]_vars

C16_Calls ==
    \A r \in Requests :
        /\ PendingCalls(req[r])
        /\ \A n \in 1..Len(req[r].analyses) :
              Calls(req[r], n) = IF UnreadRecord(req[r].analyses[n]) THEN 0 ELSE 1
        /\ LoopOver(r) => Len(req[r].analyses) = Len(req[r].imageFiles)

\* C16: within a batch the images are recognized one at a time in sorted
\* path order, a call starting only after the record of the image before is
\* appended; recognition is attempted at most once per image, exactly once
\* for every image that is read, never again after a failure; an image that
\* cannot be read gets its record without any attempt, and every image gets
\* its record.
C16_RecognizedOnceInOrder == []C16_Calls /\ [][C16_CallStep]_vars

\* A batch answered with success with an image that could not be read, an
\* image whose one recognition failed and an image that was recognized.
C16_Witness ==
    \E r \in Requests :
        /\ req[r].response.status = 200
        /\ \E n \in 1..Len(req[r].analyses) :
              UnreadRecord(req[r].analyses[n]) /\ Calls(req[r], n) = 0
        /\ \E n \in 1..Len(req[r].analyses) :
              /\ req[r].analyses[n].parsed.rawText = Chars("Error: ") \o OcrError
              /\ Calls(req[r], n) = 1
        /\ \E n \in 1..Len(req[r].analyses) :
              /\ n \notin req[r].caught
              /\ Calls(req[r], n) = 1

\* The file of the request's own archive at a path.
OwnFile(rq, path) == CHOOSE f \in ZIPS[rq.zip] : f.path = path

\* C18: the results of a batch depend only on its own archive: the image
\* files the batch processes are those its archive alone gives, and an
\* image of the batch fails to be read only when the file of its archive
\* cannot be read, whatever the other requests do to the extraction
\* directory.
C18_BatchDependsOnOwnArchive ==
    \A r \in Requests :
        LET rq == req[r]
        IN  rq.listed =>
              /\ rq.imageFiles = getAllImageFiles(ZIPS[rq.zip])
              /\ \A n \in 1..Len(rq.analyses) :
                    UnreadRecord(rq.analyses[n])
                      <=> ~OwnFile(rq, rq.imageFiles[n]).readable

\* The workers that are not terminated.
LiveWorkers == {w \in 1..Len(workers) : workers[w].state = "live"}

\* C19: whatever the interleaving of the ocrImage calls that find the
\* handle null, createWorker is pending at most once, at most one worker is
\* live at any moment, and a live worker is the one the handle holds.
C19_AtMostOneWorker ==
    /\ Cardinality({r \in Requests : req[r].pc = "createWorker"}) <= 1
    /\ Cardinality(LiveWorkers) <= 1
    /\ \A w \in LiveWorkers : worker = w

\* C20: a request that has sent its response, whatever the response, leaves
\* no worker live that it created or recognized with.
C20_WorkerTerminatedAtResponse ==
    \A r \in Requests :
        req[r].pc = "done" =>
            \A w \in req[r].created \cup UsedWorkers(req[r]) :
                workers[w].state = "terminated"

====
